---- MODULE Spec2Model ----
(***************************************************************************)
(* Carbon-aware best-start engine of carbonAwareHome: the series parser,   *)
(* the window optimizer (both implementations: __init__.py and engine.py), *)
(* the primary provider's fetch with retry/backoff and cache, the          *)
(* secondary provider and the raw-path request handlers.                   *)
(*                                                                         *)
(* Time is in seconds since the epoch, intensities are integers, a mean is *)
(* the exact pair <<sum, count>> compared by cross-multiplication, and an  *)
(* ISO-8601 UTC string is the integer whose decimal digits are DHHMMSS.    *)
(* Python None is the integer None where a number may stand, the empty     *)
(* tuple where a tuple may stand.                                          *)
(***************************************************************************)
EXTENDS Integers, Sequences, FiniteSets, TLC

\* ---------------------------------------------------------------- bounds
\* Longest unix_seconds array of a payload.
MaxLen == 3
\* Sample timestamps are the slots 0..MaxSlot, SlotSeconds apart.
MaxSlot == 2

SlotSeconds == 30 * 60
None == -1
NoHours == <<>>

Timestamps == {k * SlotSeconds : k \in 0..MaxSlot}
Intensities == {50, 100}
WindowStarts == {0, SlotSeconds}
WindowEnds == {k * SlotSeconds : k \in 1..(MaxSlot + 1)}
RuntimeMinutes == {0, 30, 60}
AllowedHours == {NoHours, <<0, 1>>, <<1, 2>>}
TzOffsets == {0, 1}
GainModes == {<<None, None>>, <<30, 100>>}

\* Calls one behaviour of the provider specification starts.
MaxCalls == 2
\* Clock ticks one behaviour takes, TickSeconds each.
MaxTicks == 2

TickSeconds == 30 * 60
\* The resolver's payloads hold up to MaxSamples timestamps, one per slot, and
\* its clock takes up to MaxSensorTicks steps of SensorTickSeconds.
MaxSamples == 3
\* The parser's payloads hold arrays of up to MaxArray entries.
MaxArray == 2
MaxSensorTicks == 12
SensorTickSeconds == 10 * 60
CACHE_MAX_AGE_SECONDS == 3600
\* A backoff table with its last two delays swapped.
BackoffsSwapped == <<5, 15, 10>>
API_BACKOFF_SECONDS == <<5, 10, 15>>

\* ------------------------------------------------------------ conversions
\* datetime.isoformat() of a UTC instant, as the digits D HH MM SS.
IsoFormat(ts) ==
    (ts \div 86400) * 1000000 + ((ts % 86400) \div 3600) * 10000
        + ((ts % 3600) \div 60) * 100 + (ts % 60)

\* The instant an ISO string names (datetime.fromisoformat / parse_datetime + as_utc).
ParseIso(iso) ==
    (iso \div 1000000) * 86400 + ((iso \div 10000) % 100) * 3600
        + ((iso \div 100) % 100) * 60 + (iso % 100)

\* A string no datetime parser accepts (such as "tomorrow").
BadIso == -3

\* dt_util.parse_datetime followed by as_utc: the instant, or None for a
\* string that is no datetime.
parse_datetime(dt_str) == IF dt_str = BadIso THEN None ELSE ParseIso(dt_str)

\* as_local(ts).hour under the host's configured UTC offset (whole hours).
LocalHour(ts, offset) == ((ts + offset * 3600) \div 3600) % 24

\* ts.hour of a datetime built with tz=timezone.utc.
UtcHour(ts) == (ts \div 3600) % 24

\* ------------------------------------------------------------------ parser
\* The value of index i with the forecast array asked first.
ValueAtForecastFirst(actual, forecast, i) ==
    IF i <= Len(forecast) /\ forecast[i] # None THEN forecast[i]
    ELSE IF i <= Len(actual) /\ actual[i] # None THEN actual[i]
    ELSE None
ValueAt(actual, forecast, i) ==
    IF i <= Len(actual) /\ actual[i] # None THEN actual[i]
    ELSE IF i <= Len(forecast) /\ forecast[i] # None THEN forecast[i]
    ELSE None

RECURSIVE CollectPoints(_, _, _, _)
CollectPoints(ts_list, actual, forecast, i) ==
    IF i > Len(ts_list) THEN <<>>
    ELSE LET val == ValueAt(actual, forecast, i)
             rest == CollectPoints(ts_list, actual, forecast, i + 1)
         IN  IF val # None
             THEN <<[ts |-> ts_list[i], intensity |-> val]>> \o rest
             ELSE rest

\* list.sort(key=ts) is stable: p goes after every element with ts <= p.ts.
RECURSIVE InsertByTs(_, _)
InsertByTs(sorted, p) ==
    IF sorted = <<>> THEN <<p>>
    ELSE IF Head(sorted).ts <= p.ts
         THEN <<Head(sorted)>> \o InsertByTs(Tail(sorted), p)
         ELSE <<p>> \o sorted

\* The list left in the order of the payload.
Unsorted(pts) == pts
RECURSIVE SortByTs(_)
SortByTs(pts) ==
    IF pts = <<>> THEN <<>>
    ELSE InsertByTs(SortByTs(SubSeq(pts, 1, Len(pts) - 1)), pts[Len(pts)])

parse_energycharts_series(json_data) ==
    SortByTs(CollectPoints(json_data.unix_seconds, json_data.co2eq,
                           json_data.co2eq_forecast, 1))

\* engine.py's parser: the same statements.
engine_parse_energycharts_series(json_data) ==
    SortByTs(CollectPoints(json_data.unix_seconds, json_data.co2eq,
                           json_data.co2eq_forecast, 1))

\* --------------------------------------------------------------- optimizer
within_allowed_hours(ts_utc, allowed_hours, offset) ==
    IF allowed_hours = NoHours THEN TRUE
    ELSE allowed_hours[1] <= LocalHour(ts_utc, offset)
         /\ LocalHour(ts_utc, offset) < allowed_hours[2]

within_hours(ts, hours) ==
    IF hours = NoHours THEN TRUE
    ELSE hours[1] <= UtcHour(ts) /\ UtcHour(ts) < hours[2]

Candidates(pts, window_start, window_end) ==
    SelectSeq(pts, LAMBDA p : window_start <= p.ts /\ p.ts < window_end)

\* [q.intensity for q in candidates[i:] if q.ts < limit]
RECURSIVE ValsFrom(_, _, _)
ValsFrom(candidates, i, limit) ==
    IF i > Len(candidates) THEN <<>>
    ELSE (IF candidates[i].ts < limit THEN <<candidates[i].intensity>> ELSE <<>>)
         \o ValsFrom(candidates, i + 1, limit)

RECURSIVE SumSeq(_)
SumSeq(s) == IF s = <<>> THEN 0 ELSE Head(s) + SumSeq(Tail(s))

Avg(vals) == <<SumSeq(vals), Len(vals)>>
AvgLess(a, b) == a[1] * b[2] < b[1] * a[2]

NoBest == [avg |-> <<0, 0>>, start |-> None]

\* The scan loop without its early exit.
RECURSIVE ScanNoBreak(_, _, _, _, _, _)
ScanNoBreak(candidates, ok, window_end, runtime, i, best) ==
    IF i > Len(candidates) THEN best
    ELSE LET t0 == candidates[i].ts
             vals == ValsFrom(candidates, i, t0 + runtime)
         IN  IF ~ok[i] \/ vals = <<>>
             THEN ScanNoBreak(candidates, ok, window_end, runtime, i + 1, best)
             ELSE IF best.start = None \/ AvgLess(Avg(vals), best.avg)
                  THEN ScanNoBreak(candidates, ok, window_end, runtime, i + 1,
                                   [avg |-> Avg(vals), start |-> t0])
                  ELSE ScanNoBreak(candidates, ok, window_end, runtime, i + 1, best)

\* The scan loop leaving already at a candidate that ends on window_end.
RECURSIVE ScanBreakOnFull(_, _, _, _, _, _)
ScanBreakOnFull(candidates, ok, window_end, runtime, i, best) ==
    IF i > Len(candidates) THEN best
    ELSE LET t0 == candidates[i].ts
             vals == ValsFrom(candidates, i, t0 + runtime)
         IN  IF t0 + runtime >= window_end THEN best
             ELSE IF ~ok[i] \/ vals = <<>>
                  THEN ScanBreakOnFull(candidates, ok, window_end, runtime, i + 1, best)
                  ELSE IF best.start = None \/ AvgLess(Avg(vals), best.avg)
                       THEN ScanBreakOnFull(candidates, ok, window_end, runtime,
                                            i + 1, [avg |-> Avg(vals), start |-> t0])
                       ELSE ScanBreakOnFull(candidates, ok, window_end, runtime,
                                            i + 1, best)

\* The scan loop of best_start_from_points from index i on; ok[i] is the
\* allowed-hours test of candidate i.
RECURSIVE Scan(_, _, _, _, _, _)
Scan(candidates, ok, window_end, runtime, i, best) ==
    IF i > Len(candidates) THEN best
    ELSE LET t0 == candidates[i].ts
             vals == ValsFrom(candidates, i, t0 + runtime)
         IN  IF t0 + runtime > window_end THEN best
             ELSE IF ~ok[i] \/ vals = <<>>
                  THEN Scan(candidates, ok, window_end, runtime, i + 1, best)
                  ELSE IF best.start = None \/ AvgLess(Avg(vals), best.avg)
                       THEN Scan(candidates, ok, window_end, runtime, i + 1,
                                 [avg |-> Avg(vals), start |-> t0])
                       ELSE Scan(candidates, ok, window_end, runtime, i + 1, best)

\* __init__.py: best_start_from_points
best_start_from_points(pts, window_start_utc, window_end_utc, runtime_minutes, allowed_hours, offset) ==
    LET runtime == runtime_minutes * 60
        candidates == Candidates(pts, window_start_utc, window_end_utc)
        ok == [i \in 1..Len(candidates) |->
                  within_allowed_hours(candidates[i].ts, allowed_hours, offset)]
        best == Scan(candidates, ok, window_end_utc, runtime, 1, NoBest)
    IN  IF candidates = <<>> THEN [status |-> "No Data"]
        ELSE IF best.start = None THEN [status |-> "No Candidate"]
        ELSE [status |-> "OK",
              best_start_time_utc |-> IsoFormat(best.start),
              best_end_time_utc |-> IsoFormat(best.start + runtime),
              expected_avg_intensity |-> best.avg]

\* engine.py: best_start_from_points
engine_best_start_from_points(pts, window_start, window_end, runtime_minutes, allowed_hours, min_gain, now_intensity) ==
    LET runtime == runtime_minutes * 60
        candidates == Candidates(pts, window_start, window_end)
        ok == [i \in 1..Len(candidates) |->
                  within_hours(candidates[i].ts, allowed_hours)]
        best == Scan(candidates, ok, window_end, runtime, 1, NoBest)
    IN  IF candidates = <<>> THEN [status |-> "No Data"]
        ELSE IF best.start = None THEN [status |-> "No Candidate"]
        ELSE IF min_gain # None /\ now_intensity # None
                /\ now_intensity * best.avg[2] - best.avg[1] < min_gain * best.avg[2]
             THEN [status |-> "Gain Too Low",
                   best_start_time |-> IsoFormat(best.start),
                   expected_avg_intensity |-> best.avg]
        ELSE [status |-> "OK",
              best_start_time |-> IsoFormat(best.start),
              best_end_time |-> IsoFormat(best.start + runtime),
              expected_avg_intensity |-> best.avg]

\* ------------------------------------------------------ secondary provider
NoAvg == <<0, 0>>

\* What the forecast API call ends as: an HTTP response with its JSON body, a
\* timeout, or a transport error. The body's shape is one of
\*   "empty"      []                         "not_list"  a JSON object
\*   "no_key"     [{}]                       "no_points" [{"optimalDataPoints": []}]
\*   "points"     [{"optimalDataPoints": [{"timestamp": .., "value": ..}]}]
\*   "bad_point"  [{"optimalDataPoints": [5]}]
SecondaryBody(shape, timestamp, value) ==
    [shape |-> shape, timestamp |-> timestamp, value |-> value]
SecondaryOutcomes ==
    {[kind |-> "http", status |-> 200, data |-> d] :
        d \in {SecondaryBody(sh, None, None) :
                  sh \in {"empty", "not_list", "no_key", "no_points", "bad_point"}}
              \cup {SecondaryBody("points", t, 42) :
                       t \in {None, IsoFormat(0), IsoFormat(3600)}}}
    \cup {[kind |-> "http", status |-> 500, data |-> SecondaryBody("empty", None, None)],
          [kind |-> "timeout", status |-> 0, data |-> SecondaryBody("empty", None, None)],
          [kind |-> "error", status |-> 0, data |-> SecondaryBody("empty", None, None)]}

\* BluehandsProvider.get_best_time: (best_time, best_value, meta), or raised
\* when best_point.get fails on a point that is no object.
get_best_time(outcome) ==
    LET answer(t, v, st, r) ==
            [raised |-> r, best_time |-> t, best_value |-> v, status |-> st]
    IN  IF outcome.kind = "timeout" THEN answer(None, NoAvg, "Timeout", FALSE)
        ELSE IF outcome.kind = "error" THEN answer(None, NoAvg, "Error", FALSE)
        ELSE IF outcome.status # 200 THEN answer(None, NoAvg, "Error", FALSE)
        ELSE IF outcome.data.shape \in {"empty", "not_list", "no_key", "no_points"}
             THEN answer(None, NoAvg, "No Data", FALSE)
        ELSE IF outcome.data.shape = "bad_point"
             THEN answer(None, NoAvg, "raised", TRUE)
        ELSE answer(outcome.data.timestamp,
                    IF outcome.data.value = None THEN NoAvg
                    ELSE <<outcome.data.value, 1>>,
                    "OK", FALSE)

\* -------------------------------------------------------- primary provider
\* A payload: the JSON body of the primary provider, or Python None.
Payload(kind, ts_list, actual, forecast) ==
    [kind |-> kind, unix_seconds |-> ts_list, co2eq |-> actual,
     co2eq_forecast |-> forecast]
NonePayload == Payload("none", <<>>, <<>>, <<>>)
EmptyDict == Payload("empty_dict", <<>>, <<>>, <<>>)
SeriesPayload ==
    Payload("dict", <<0, SlotSeconds, 2 * SlotSeconds>>, <<100, 50, None>>,
            <<None, None, 100>>)
LatePayload == Payload("dict", <<2 * SlotSeconds>>, <<50>>, <<>>)
NullsPayload == Payload("dict", <<0>>, <<None>>, <<None>>)

\* An array entry float() cannot convert (a string such as "n/a", a list).
BadValue == -2
MalformedPayload == Payload("dict", <<0>>, <<BadValue>>, <<>>)

\* parse_energycharts_series raises: float() meets such an entry at an index
\* it reads (the actual entry, or the forecast entry when the actual one is
\* absent or null).
ParseRaises(json_data) ==
    \E i \in 1..Len(json_data.unix_seconds) :
        LET hasActual == i <= Len(json_data.co2eq) /\ json_data.co2eq[i] # None
        IN  \/ hasActual /\ json_data.co2eq[i] = BadValue
            \/ /\ ~hasActual
               /\ i <= Len(json_data.co2eq_forecast)
               /\ json_data.co2eq_forecast[i] = BadValue

\* bool(payload): None and {} are falsy.
Truthy(p) == p.kind = "dict"

NoCache == [data |-> NonePayload, timestamp |-> None]

ClientStatuses == {400, 404, 499}
TransientStatuses == {500, 503}

HttpOutcome(status, body) == [kind |-> "http", status |-> status, body |-> body]
\* A response whose body cannot be read (resp.text() / resp.json() raising or
\* running into the timeout) is the "error" or the "timeout" outcome,
\* whatever its status line was.
PrimaryOutcomes(bodies) ==
    {HttpOutcome(200, b) : b \in bodies}
    \cup {HttpOutcome(st, NonePayload) : st \in ClientStatuses \cup TransientStatuses}
    \cup {[kind |-> "timeout", status |-> 0, body |-> NonePayload],
          [kind |-> "error", status |-> 0, body |-> NonePayload]}

\* The client-class test with its lower bound off by one.
IsClientErrorAbove400(outcome) ==
    outcome.kind = "http" /\ 400 < outcome.status /\ outcome.status < 500
IsClientError(outcome) ==
    outcome.kind = "http" /\ 400 <= outcome.status /\ outcome.status < 500
IsSuccess(outcome) == outcome.kind = "http" /\ outcome.status = 200

\* __init__.py's own backoff list.
backoffs == <<5, 10, 15>>

\* The backoff slept after failed attempt n (1-based), None after the last.
BackoffAfter(kind, n) ==
    LET list == IF kind = "provider_py" THEN API_BACKOFF_SECONDS ELSE backoffs
    IN  IF n <= Len(list) THEN list[n] ELSE None

\* The log of a call: one event per attempt, naming the class of its outcome
\* ("ok" a 200, "client" a 400..499, "transient" a 5xx, a timeout or a
\* transport error), and one per sleep, with its seconds.
Event(ev, val) == [ev |-> ev, val |-> val]
OutcomeEvent(outcome) ==
    IF outcome.kind \in {"timeout", "error"} THEN Event("transient", 0)
    ELSE IF outcome.status = 200 THEN Event("ok", 0)
    ELSE IF outcome.status \in 400..499 THEN Event("client", 0)
    ELSE Event("transient", 0)

\* parse_hours: "s-e" as its parts, a non-numeric part being None.
parse_hours(hours_str) ==
    IF hours_str = <<>> THEN NoHours
    ELSE IF Len(hours_str) = 2 /\ hours_str[1] # None /\ hours_str[2] # None
         THEN <<hours_str[1], hours_str[2]>>
         ELSE NoHours

\* ------------------------------------------------------------------- state
VARIABLES
    points,     \* the parsed series handed to the optimizer
    tz,         \* the host's local UTC offset in hours
    request,    \* the arguments of the last optimizer call
    result,     \* what that call returned
    impl,       \* which implementation answered: "none", "init", "engine"
    now,        \* the clock, in seconds
    ticks,      \* clock ticks taken
    cache,      \* hass.data[DOMAIN]["energy_charts_cache"]
    call,       \* per caller: the coroutine of its current call
    calls,      \* calls started
    lastFetch,  \* the last successful primary fetch: its payload and call time
    forecast_sensor, \* the state and attributes of sensor.co2_intensity_forecast
    raw_json,   \* the payload handed to the parser
    current_sensor   \* the state and attributes of sensor.current_co2_intensity

optVars == <<points, request, result, impl>>
optFrame == <<points, tz, request, result, impl, raw_json, current_sensor>>
sysVars == <<now, ticks, cache, call, calls, lastFetch, forecast_sensor,
            current_sensor>>
vars == <<points, tz, request, result, impl, now, ticks, cache, call, calls,
          lastFetch, forecast_sensor, raw_json, current_sensor>>

Callers == {"c1"}

NoHandlerRequest ==
    [dataStartAt |-> None, dataEndAt |-> None, expectedRuntime |-> 0,
     allowedHours |-> <<>>]
NoSecondary == [raised |-> FALSE, best_time |-> None, best_value |-> NoAvg,
                status |-> "none"]
NoResult == [status |-> "none", source |-> "none", best_start |-> None,
             avg_intensity |-> NoAvg, fallback |-> "none"]
NoSensor == [time |-> None, text |-> "unknown", status |-> "none",
             source |-> "none"]

\* CO2CurrentSensor.__init__: no state, status OK. value is in hundredths;
\* step names the part of _pick_best_value that answered, after_fetch whether
\* a primary fetch had returned a non-empty payload before the update, read
\* the data and cache_ts the update took from the cache.
NoCurrent ==
    [state |-> None, timestamp |-> None, source |-> "none", status |-> "OK",
     index_used |-> None, step |-> "none", after_fetch |-> FALSE,
     at |-> None, read |-> NoCache]

\* outer is the stage of the delay handler around the call ("none" without
\* one), scheduled the instants it handed to async_track_point_in_time.
IdleCall ==
    [kind |-> "none", hass |-> FALSE, pc |-> "idle", attempt |-> 0,
     t0 |-> None, started |-> None, requests |-> 0, trace |-> <<>>,
     ret |-> NonePayload, wake |-> 0, cache0 |-> NoCache, fresh0 |-> FALSE,
     data0 |-> NonePayload, req |-> NoHandlerRequest, secondary_calls |-> 0,
     raw_status |-> "none", sec |-> NoSecondary, result |-> NoResult,
     outer |-> "none", scheduled |-> <<>>]

SysInit ==
    /\ now = 0 /\ ticks = 0
    /\ cache = NoCache
    /\ call = [c \in Callers |-> IdleCall]
    /\ calls = 0
    /\ lastFetch = [data |-> NonePayload, at |-> None]
    /\ forecast_sensor = NoSensor
    /\ current_sensor = NoCurrent

OptIdle ==
    /\ points = <<>>
    /\ request = [window_start |-> 0, window_end |-> 0, runtime_minutes |-> 0,
                  allowed_hours |-> NoHours, min_gain |-> None,
                  now_intensity |-> None]
    /\ result = [status |-> "none"]
    /\ impl = "none"
    /\ raw_json = NonePayload

\* ------------------------------------------------- optimizer specification
\* Payloads of the optimizer runs: every index has an actual value or null.
OptPayloads ==
    UNION {[unix_seconds : [1..n -> Timestamps],
            co2eq : [1..n -> Intensities \cup {None}],
            co2eq_forecast : {<<>>}] : n \in 0..MaxLen}

Requests ==
    [window_start : WindowStarts, window_end : WindowEnds,
     runtime_minutes : RuntimeMinutes, allowed_hours : AllowedHours,
     min_gain : {None}, now_intensity : {None}]

OptInit ==
    /\ OptIdle /\ SysInit
    /\ tz \in TzOffsets

\* The series comes out of the parser.
ParsePayload ==
    /\ impl = "none" /\ points = <<>>
    /\ \E json_data \in OptPayloads :
          points' = parse_energycharts_series(json_data)
    /\ UNCHANGED <<tz, request, result, impl, raw_json>>
    /\ UNCHANGED sysVars

\* One call of __init__.py's best_start_from_points on the parsed series.
CallInitOptimizer ==
    /\ impl = "none"
    /\ \E r \in Requests :
          /\ request' = r
          /\ result' = best_start_from_points(points, r.window_start, r.window_end,
                           r.runtime_minutes, r.allowed_hours, tz)
    /\ impl' = "init"
    /\ UNCHANGED <<points, tz, raw_json>>
    /\ UNCHANGED sysVars

\* One call of engine.py's best_start_from_points on the parsed series.
CallEngineOptimizer ==
    /\ impl = "none"
    /\ \E r \in Requests, g \in GainModes :
          /\ request' = [r EXCEPT !.min_gain = g[1], !.now_intensity = g[2]]
          /\ result' = engine_best_start_from_points(points, r.window_start,
                           r.window_end, r.runtime_minutes, r.allowed_hours,
                           g[1], g[2])
    /\ impl' = "engine"
    /\ UNCHANGED <<points, tz, raw_json>>
    /\ UNCHANGED sysVars

OptNext == ParsePayload \/ CallInitOptimizer \/ CallEngineOptimizer

SpecOpt == OptInit /\ [][OptNext]_vars

\* ------------------------------------------------------ provider actions
FetchBodies == {EmptyDict, SeriesPayload, LatePayload}
HandlerBodies ==
    {EmptyDict, SeriesPayload, LatePayload, NullsPayload, MalformedPayload}

Fresh(entry, at) ==
    /\ Truthy(entry.data)
    /\ entry.timestamp # None
    /\ at - entry.timestamp < CACHE_MAX_AGE_SECONDS

\* The ghost fields every call starts with: the cache and the last successful
\* fetch as they are when the call begins.
Begin(kind, hass) ==
    [IdleCall EXCEPT !.kind = kind, !.hass = hass, !.started = now,
                     !.cache0 = cache,
                     !.fresh0 = (lastFetch.at # None
                                 /\ now - lastFetch.at < CACHE_MAX_AGE_SECONDS),
                     !.data0 = lastFetch.data]

\* provider.py fetch_co2eq_series up to its first request: read the cache,
\* take now, return the cached payload if it is fresh.
StartProviderFetch(c, hass) ==
    /\ call[c].pc = "idle" /\ calls < MaxCalls
    /\ LET entry == IF hass THEN cache ELSE NoCache
           begun == [Begin("provider_py", hass) EXCEPT !.t0 = now]
       IN  call' = [call EXCEPT ![c] =
                IF Fresh(entry, now)
                THEN [begun EXCEPT !.pc = "returned", !.ret = entry.data]
                ELSE [begun EXCEPT !.pc = "attempt", !.attempt = 1]]
    /\ calls' = calls + 1
    /\ UNCHANGED <<now, ticks, cache, lastFetch, forecast_sensor>>
    /\ UNCHANGED optFrame

\* __init__.py fetch_co2eq_series up to its first request: no cache is read.
StartInitFetch(c) ==
    /\ call[c].pc = "idle" /\ calls < MaxCalls
    /\ call' = [call EXCEPT ![c] =
                   [Begin("init_py", FALSE) EXCEPT !.pc = "attempt", !.attempt = 1]]
    /\ calls' = calls + 1
    /\ UNCHANGED <<now, ticks, cache, lastFetch, forecast_sensor>>
    /\ UNCHANGED optFrame

\* session.get: one network request goes out.
SendRequest(c) ==
    /\ call[c].pc = "attempt"
    /\ call' = [call EXCEPT ![c].pc = "waiting",
                            ![c].requests = call[c].requests + 1]
    /\ UNCHANGED <<now, ticks, cache, calls, lastFetch, forecast_sensor>>
    /\ UNCHANGED optFrame

\* The rest of one loop iteration once the attempt's outcome is known.
AfterOutcome(cl, outcome) ==
    LET seen == [cl EXCEPT !.trace = Append(cl.trace, OutcomeEvent(outcome))]
        backoff == BackoffAfter(cl.kind, cl.attempt)
    IN  IF IsSuccess(outcome)
        THEN [seen EXCEPT !.pc = "returned", !.ret = outcome.body]
        ELSE IF IsClientError(outcome)
        THEN [seen EXCEPT !.pc = "returned", !.ret = NonePayload]
        ELSE IF backoff # None
        THEN [seen EXCEPT !.pc = "sleep", !.wake = now + backoff,
                          !.trace = Append(seen.trace, Event("sleep", backoff))]
        ELSE [seen EXCEPT !.pc = "returned", !.ret = NonePayload]

\* A cache write that puts the payload into the entry and leaves the
\* timestamp of the entry as it was.
CacheAfterDataOnly(cl, outcome) ==
    IF IsSuccess(outcome) /\ cl.kind = "provider_py" /\ cl.hass
    THEN [data |-> outcome.body, timestamp |-> cache.timestamp]
    ELSE cache
\* A cache write that keeps an entry already there.
CacheAfterFirstWins(cl, outcome) ==
    IF IsSuccess(outcome) /\ cl.kind = "provider_py" /\ cl.hass /\ cache = NoCache
    THEN [data |-> outcome.body, timestamp |-> cl.t0]
    ELSE cache
\* The cache after the attempt: provider.py with hass stores a 200 payload
\* under the time taken when the call began.
CacheAfter(cl, outcome) ==
    IF IsSuccess(outcome) /\ cl.kind = "provider_py" /\ cl.hass
    THEN [data |-> outcome.body, timestamp |-> cl.t0]
    ELSE cache

ReceiveResponse(c, outcome) ==
    /\ call[c].pc = "waiting"
    /\ call' = [call EXCEPT ![c] = AfterOutcome(call[c], outcome)]
    /\ cache' = CacheAfter(call[c], outcome)
    /\ lastFetch' = IF IsSuccess(outcome)
                    THEN [data |-> outcome.body, at |-> call[c].started]
                    ELSE lastFetch
    /\ UNCHANGED <<now, ticks, calls, forecast_sensor>>
    /\ UNCHANGED optFrame

\* asyncio.sleep(backoff) is over: the clock is at least at the wake time.
WakeUp(c) ==
    /\ call[c].pc = "sleep"
    /\ now' = IF now < call[c].wake THEN call[c].wake ELSE now
    /\ call' = [call EXCEPT ![c].pc = "attempt",
                            ![c].attempt = call[c].attempt + 1]
    /\ UNCHANGED <<ticks, cache, calls, lastFetch, forecast_sensor>>
    /\ UNCHANGED optFrame

\* The caller of a bare fetch takes the return value; it may call again.
Finish(c) ==
    /\ call[c].pc = "returned"
    /\ call[c].kind \in {"provider_py", "init_py"}
    /\ call' = [call EXCEPT ![c] = IdleCall]
    /\ UNCHANGED <<now, ticks, cache, calls, lastFetch, forecast_sensor>>
    /\ UNCHANGED optFrame

Tick ==
    /\ ticks < MaxTicks
    /\ now' = now + TickSeconds
    /\ ticks' = ticks + 1
    /\ UNCHANGED <<cache, call, calls, lastFetch, forecast_sensor>>
    /\ UNCHANGED optFrame

SysIdle == OptIdle /\ SysInit

ProviderInit == SysIdle /\ tz = 0

ProviderNext ==
    \/ \E c \in Callers, hass \in BOOLEAN : StartProviderFetch(c, hass)
    \/ \E c \in Callers : StartInitFetch(c)
    \/ \E c \in Callers : SendRequest(c)
    \/ \E c \in Callers, o \in PrimaryOutcomes(FetchBodies) : ReceiveResponse(c, o)
    \/ \E c \in Callers : WakeUp(c)
    \/ \E c \in Callers : Finish(c)
    \/ Tick

Spec == ProviderInit /\ [][ProviderNext]_vars

\* ------------------------------------------------ current-value resolver
\* Values of the resolver are in hundredths: round(x, 2) of the rational
\* num / den is the nearest count of hundredths, a tie going to the even one.
Floor2(num, den) == (100 * num) \div den
Round2(num, den) ==
    LET q == (100 * num) \div den
        r == (100 * num) % den
    IN  IF 2 * r < den THEN q
        ELSE IF 2 * r > den THEN q + 1
        ELSE IF q % 2 = 0 THEN q ELSE q + 1

\* The value the interpolation loop reads at (1-based) index k: the actual
\* entry if present and non-null, else the forecast entry, else None.
UsableAt(co2_actual, co2_forecast, k) ==
    IF k <= Len(co2_actual) /\ co2_actual[k] # None THEN co2_actual[k]
    ELSE IF k <= Len(co2_forecast) /\ co2_forecast[k] # None THEN co2_forecast[k]
    ELSE None

actual_at(co2_actual, k) ==
    IF 1 <= k /\ k <= Len(co2_actual) /\ co2_actual[k] # None
    THEN Round2(co2_actual[k], 1) ELSE None
forecast_at(co2_forecast, k) ==
    IF 1 <= k /\ k <= Len(co2_forecast) /\ co2_forecast[k] # None
    THEN Round2(co2_forecast[k], 1) ELSE None

\* (value, ts_used, source, idx_used) of _pick_best_value, with the step that
\* returned it; idx is the 0-based index the code reports.
Picked(value, ts_used, source, k, step) ==
    [value |-> value, ts_used |-> ts_used, source |-> source,
     idx |-> k - 1, step |-> step]
NothingPicked ==
    [value |-> None, ts_used |-> None, source |-> "none", idx |-> None,
     step |-> "nothing"]

Lowest(S) == CHOOSE k \in S : \A m \in S : k <= m
Highest(S) == CHOOSE k \in S : \A m \in S : k >= m

\* bisect_right(unix_seconds, now_ts) of an ascending list.
bisect_right(unix_seconds, now_ts) ==
    Cardinality({k \in 1..Len(unix_seconds) : unix_seconds[k] <= now_ts})

\* Step 4 left out: nothing is taken from the whole series.
NoLastAvailable(unix_seconds, co2_actual, co2_forecast) == NothingPicked
\* Step 4: the last index with a value, actual preferred at that index.
LastAvailable(unix_seconds, co2_actual, co2_forecast) ==
    LET n == Len(unix_seconds)
        any == {j \in 1..n : actual_at(co2_actual, j) # None
                             \/ forecast_at(co2_forecast, j) # None}
        j == Highest(any)
    IN  IF any = {} THEN NothingPicked
        ELSE IF actual_at(co2_actual, j) # None
        THEN Picked(actual_at(co2_actual, j), unix_seconds[j], "actual", j,
                    "last_available")
        ELSE Picked(forecast_at(co2_forecast, j), unix_seconds[j], "forecast", j,
                    "last_available")

_pick_best_value(unix_seconds, co2_actual, co2_forecast, now_ts) ==
    LET n == Len(unix_seconds)
        v(k) == UsableAt(co2_actual, co2_forecast, k)
        bracket == {k \in 1..(n - 1) :
                       /\ v(k) # None /\ v(k + 1) # None
                       /\ unix_seconds[k] <= now_ts /\ now_ts < unix_seconds[k + 1]}
        b == Lowest(bracket)
        i == bisect_right(unix_seconds, now_ts)
        back == {j \in 1..i : actual_at(co2_actual, j) # None}
        fwd == {j \in (IF i > 1 THEN i ELSE 1)..n : forecast_at(co2_forecast, j) # None}
        all_fc == {j \in 1..n : forecast_at(co2_forecast, j) # None}
    IN  IF n = 0 THEN NothingPicked
        ELSE IF bracket # {}
        THEN Picked(Round2(v(b) * (unix_seconds[b + 1] - unix_seconds[b])
                             + (v(b + 1) - v(b)) * (now_ts - unix_seconds[b]),
                           unix_seconds[b + 1] - unix_seconds[b]),
                    now_ts, "interpolated", b, "interpolation")
        ELSE IF back # {}
        THEN Picked(actual_at(co2_actual, Highest(back)),
                    unix_seconds[Highest(back)], "actual", Highest(back),
                    "backward_actual")
        ELSE IF fwd # {}
        THEN Picked(forecast_at(co2_forecast, Lowest(fwd)),
                    unix_seconds[Lowest(fwd)], "forecast", Lowest(fwd),
                    "forward_forecast")
        ELSE IF i = 0 /\ all_fc # {}
        THEN Picked(forecast_at(co2_forecast, Lowest(all_fc)),
                    unix_seconds[Lowest(all_fc)], "forecast", Lowest(all_fc),
                    "first_forecast")
        ELSE LastAvailable(unix_seconds, co2_actual, co2_forecast)

\* _set_no_data putting a zero where it should clear the state.
NoDataZeroState(status, fetched) ==
    [state |-> 0, timestamp |-> None, source |-> "none",
     status |-> status, index_used |-> None, step |-> "none",
     after_fetch |-> fetched, at |-> None, read |-> NoCache]
\* _set_no_data(status)
NoDataState(status, fetched) ==
    [state |-> None, timestamp |-> None, source |-> "none", status |-> status,
     index_used |-> None, step |-> "none", after_fetch |-> fetched, at |-> None,
     read |-> NoCache]

\* CO2CurrentSensor.async_update: read the cache, pick the value for now.
async_update ==
    /\ LET data == cache.data
           fetched == lastFetch.at # None /\ Truthy(lastFetch.data)
           pick == _pick_best_value(data.unix_seconds, data.co2eq,
                                    data.co2eq_forecast, now)
           taken == [data |-> data, timestamp |-> cache.timestamp]
       IN  current_sensor' =
             IF ~Truthy(data)
             THEN [NoDataState("API not reachable or no data in cache", fetched)
                      EXCEPT !.read = taken]
             ELSE IF pick.value = None \/ pick.ts_used = None
             THEN [NoDataState("No usable CO2 data (actual/forecast empty)",
                               fetched) EXCEPT !.read = taken]
             ELSE [state |-> Round2(pick.value, 100),
                   timestamp |-> IsoFormat(pick.ts_used), source |-> pick.source,
                   status |-> "OK", index_used |-> pick.idx, step |-> pick.step,
                   after_fetch |-> fetched, at |-> now, read |-> taken]
    /\ UNCHANGED <<points, tz, request, result, impl, raw_json>>
    /\ UNCHANGED <<now, ticks, cache, call, calls, lastFetch, forecast_sensor>>

\* ---------------------------------------------------- concurrent fetches
\* Two coroutines of provider.py's fetch_co2eq_series with hass on one event
\* loop, next to the sensor's update: they interleave at their awaits. The
\* server answers each request with a 200 or a 4xx, so no call sleeps.
Fetchers == {"f1", "f2"}
ConcBodies == {SeriesPayload, LatePayload, NullsPayload}
ConcOutcomes ==
    {o \in PrimaryOutcomes(ConcBodies) : IsSuccess(o) \/ IsClientError(o)}

ConcInit ==
    /\ OptIdle /\ tz = 0
    /\ now = 0 /\ ticks = 0
    /\ cache = NoCache
    /\ call = [c \in Fetchers |-> IdleCall]
    /\ calls = 0
    /\ lastFetch = [data |-> NonePayload, at |-> None]
    /\ forecast_sensor = NoSensor
    /\ current_sensor = NoCurrent

ConcNext ==
    \/ \E c \in Fetchers : StartProviderFetch(c, TRUE)
    \/ \E c \in Fetchers : SendRequest(c)
    \/ \E c \in Fetchers, o \in ConcOutcomes : ReceiveResponse(c, o)
    \/ \E c \in Fetchers : Finish(c)
    \/ Tick
    \/ async_update

SpecConc == ConcInit /\ [][ConcNext]_vars

\* ------------------------------------------------------ request handlers
HandlerKinds == {"get_best_time_raw", "get_forecast_raw"}

\* The service data of a raw-path request: schema-valid, with datetimes that
\* parse. allowedHours is the "s-e" string as its parts, <<>> when absent.
HandlerRequests ==
    [dataStartAt : {IsoFormat(0)}, dataEndAt : {IsoFormat(3 * SlotSeconds)},
     expectedRuntime : {30},
     allowedHours : {<<>>, <<0, 1>>, <<1, 2>>, <<1, 0>>, <<1, 30>>}]

\* What a handler reports. handle_get_best_time_raw returns it as a dict;
\* handle_get_forecast_raw returns (best_start, avg_intensity) and puts status,
\* source and fallback into the attributes of the forecast sensor.
RawResult(status, best_start, avg_intensity) ==
    [status |-> status, source |-> "raw", best_start |-> best_start,
     avg_intensity |-> avg_intensity, fallback |-> "none"]

\* The fallback result carrying the provenance of the primary path.
FallbackTaggedRaw(sec) ==
    [status |-> sec.status, source |-> "raw", best_start |-> sec.best_time,
     avg_intensity |-> sec.best_value, fallback |-> "none"]
FallbackResult(sec) ==
    [status |-> sec.status, source |-> "raw_fallback_api",
     best_start |-> sec.best_time, avg_intensity |-> sec.best_value,
     fallback |-> "api"]

\* What the secondary-only handlers report.
ApiResult(sec) ==
    [status |-> sec.status, source |-> "api", best_start |-> sec.best_time,
     avg_intensity |-> sec.best_value, fallback |-> "none"]

\* update_forecast_sensor: the state is the local time of the best start (the
\* string itself when it is no datetime), or the status when there is none.
update_forecast_sensor(state_time_utc_iso, attrs, offset) ==
    [time |-> IF state_time_utc_iso = None THEN None
              ELSE IF state_time_utc_iso = BadIso THEN BadIso
              ELSE IsoFormat(ParseIso(state_time_utc_iso) + offset * 3600),
     text |-> IF state_time_utc_iso # None THEN "time" ELSE attrs.status,
     status |-> attrs.status, source |-> attrs.source]

\* parse_energycharts_series and best_start_from_points on the fetched
\* payload, as both handlers call them.
Optimized(cl) ==
    best_start_from_points(parse_energycharts_series(cl.ret),
        ParseIso(cl.req.dataStartAt), ParseIso(cl.req.dataEndAt),
        cl.req.expectedRuntime, parse_hours(cl.req.allowedHours), tz)

ToSecondary(cl, raw_status) ==
    [cl EXCEPT !.pc = "secondary", !.raw_status = raw_status,
               !.secondary_calls = cl.secondary_calls + 1]

\* A handler from its entry to its first await or its early return:
\* handle_get_best_time_api goes straight to the secondary provider, the raw
\* handlers parse both datetimes and return early when one does not parse,
\* and otherwise reach the first request of their primary fetch.
Entered(kind, req) ==
    LET begun == [Begin(kind, FALSE) EXCEPT !.req = req]
        ws == parse_datetime(req.dataStartAt)
        we == parse_datetime(req.dataEndAt)
    IN  IF kind = "get_best_time_api" THEN ToSecondary(begun, "none")
        ELSE IF ws = None \/ we = None
        THEN [begun EXCEPT !.pc = "done",
                !.result = IF kind = "get_best_time_raw"
                           THEN [NoResult EXCEPT !.status = "InvalidDatetime"]
                           ELSE RawResult("Error", None, NoAvg)]
        ELSE [begun EXCEPT !.pc = "attempt", !.attempt = 1]

\* The forecast sensor after that stretch: handle_get_forecast_raw sets it to
\* status Error when a datetime does not parse.
SensorOnEntry(kind, req) ==
    IF kind = "get_forecast_raw" /\ Entered(kind, req).pc = "done"
    THEN update_forecast_sensor(None, RawResult("Error", None, NoAvg), tz)
    ELSE forecast_sensor

StartHandler(c, kind, req) ==
    /\ call[c].pc = "idle" /\ calls < MaxCalls
    /\ call' = [call EXCEPT ![c] = Entered(kind, req)]
    /\ forecast_sensor' = SensorOnEntry(kind, req)
    /\ calls' = calls + 1
    /\ UNCHANGED <<now, ticks, cache, lastFetch>>
    /\ UNCHANGED optFrame

\* handle_get_best_time_raw from the return of the primary fetch to its
\* return, or to its call of the secondary provider.
handle_get_best_time_raw(c) ==
    /\ call[c].pc = "returned" /\ call[c].kind = "get_best_time_raw"
    /\ LET cl == call[c]
           res == Optimized(cl)
       IN  call' = [call EXCEPT ![c] =
             IF cl.ret = NonePayload THEN ToSecondary(cl, "none")
             ELSE IF ParseRaises(cl.ret) THEN [cl EXCEPT !.pc = "raised"]
             ELSE IF res.status # "OK"
             THEN [cl EXCEPT !.pc = "done", !.raw_status = res.status,
                             !.result = RawResult(res.status, None, NoAvg)]
             ELSE [cl EXCEPT !.pc = "done", !.raw_status = "OK",
                             !.result = RawResult("OK", res.best_start_time_utc,
                                                  res.expected_avg_intensity)]]
    /\ UNCHANGED <<now, ticks, cache, calls, lastFetch, forecast_sensor>>
    /\ UNCHANGED optFrame

\* handle_get_forecast_raw over the same stretch.
handle_get_forecast_raw(c) ==
    /\ call[c].pc = "returned" /\ call[c].kind = "get_forecast_raw"
    /\ LET cl == call[c]
           res == Optimized(cl)
           answer == RawResult("OK", res.best_start_time_utc,
                               res.expected_avg_intensity)
       IN  IF cl.ret = NonePayload
           THEN /\ call' = [call EXCEPT ![c] = ToSecondary(cl, "none")]
                /\ UNCHANGED forecast_sensor
           ELSE IF ParseRaises(cl.ret)
           THEN /\ call' = [call EXCEPT ![c].pc = "raised"]
                /\ UNCHANGED forecast_sensor
           ELSE IF res.status # "OK"
           THEN /\ call' = [call EXCEPT ![c] = ToSecondary(cl, res.status)]
                /\ UNCHANGED forecast_sensor
           ELSE /\ call' = [call EXCEPT ![c].pc = "done", ![c].raw_status = "OK",
                                        ![c].result = answer]
                /\ forecast_sensor' =
                       update_forecast_sensor(answer.best_start, answer, tz)
    /\ UNCHANGED <<now, ticks, cache, calls, lastFetch>>
    /\ UNCHANGED optFrame

\* BluehandsProvider.get_best_time has answered (or raised) and the handler
\* builds its fallback result from the answer.
SecondaryResponse(c, outcome) ==
    /\ call[c].pc = "secondary"
    /\ LET cl == call[c]
           sec == get_best_time(outcome)
           answer == IF cl.kind = "get_best_time_api" \/ cl.outer = "api"
                     THEN ApiResult(sec) ELSE FallbackResult(sec)
       IN  IF sec.raised
           THEN /\ call' = [call EXCEPT ![c].pc = "raised", ![c].sec = sec]
                /\ UNCHANGED forecast_sensor
           ELSE /\ call' = [call EXCEPT ![c].pc = "done", ![c].sec = sec,
                                        ![c].result = answer]
                /\ forecast_sensor' =
                       IF cl.kind = "get_forecast_raw"
                       THEN update_forecast_sensor(sec.best_time, answer, tz)
                       ELSE forecast_sensor
    /\ UNCHANGED <<now, ticks, cache, calls, lastFetch>>
    /\ UNCHANGED optFrame

\* schedule_execution: async_track_point_in_time is called with the parsed
\* time; nothing is scheduled for a string that is no datetime.
ScheduleTwice(scheduled, optimal_time_iso) ==
    scheduled \o <<ParseIso(optimal_time_iso), ParseIso(optimal_time_iso)>>
schedule_execution(scheduled, optimal_time_iso) ==
    IF parse_datetime(optimal_time_iso) = None THEN scheduled
    ELSE Append(scheduled, parse_datetime(optimal_time_iso))

\* handle_delay_raw up to the first await of handle_get_forecast_raw.
StartDelay(c, req) ==
    /\ call[c].pc = "idle" /\ calls < MaxCalls
    /\ call' = [call EXCEPT ![c] =
                   [Entered("get_forecast_raw", req) EXCEPT !.outer = "raw"]]
    /\ forecast_sensor' = SensorOnEntry("get_forecast_raw", req)
    /\ calls' = calls + 1
    /\ UNCHANGED <<now, ticks, cache, lastFetch>>
    /\ UNCHANGED optFrame

\* handle_delay_raw after handle_get_forecast_raw, and again after its
\* last-resort handle_get_forecast_api, has returned a best time: schedule
\* when there is one, else try the secondary provider once, else give up.
handle_delay_raw(c) ==
    /\ call[c].pc = "done" /\ call[c].outer \in {"raw", "api"}
    /\ LET cl == call[c]
           best_time == cl.result.best_start
       IN  call' = [call EXCEPT ![c] =
             IF best_time # None
             THEN [cl EXCEPT !.outer = "over",
                             !.scheduled = schedule_execution(cl.scheduled, best_time)]
             ELSE IF cl.outer = "raw"
             THEN [ToSecondary(cl, cl.raw_status) EXCEPT !.outer = "api"]
             ELSE [cl EXCEPT !.outer = "over"]]
    /\ UNCHANGED <<now, ticks, cache, calls, lastFetch, forecast_sensor>>
    /\ UNCHANGED optFrame

\* The service call is over; the next one may start.
FinishHandler(c) ==
    /\ \/ call[c].pc = "raised"
       \/ call[c].pc = "done" /\ call[c].outer \in {"none", "over"}
    /\ call' = [call EXCEPT ![c] = IdleCall]
    /\ UNCHANGED <<now, ticks, cache, calls, lastFetch, forecast_sensor>>
    /\ UNCHANGED optFrame

ReqInit == SysIdle /\ tz \in TzOffsets

ReqNext ==
    \/ \E c \in Callers, kind \in HandlerKinds, req \in HandlerRequests :
          StartHandler(c, kind, req)
    \/ \E c \in Callers : SendRequest(c)
    \/ \E c \in Callers, o \in PrimaryOutcomes(HandlerBodies) : ReceiveResponse(c, o)
    \/ \E c \in Callers : WakeUp(c)
    \/ \E c \in Callers : handle_get_best_time_raw(c)
    \/ \E c \in Callers : handle_get_forecast_raw(c)
    \/ \E c \in Callers, o \in SecondaryOutcomes : SecondaryResponse(c, o)
    \/ \E c \in Callers : FinishHandler(c)

SpecReq == ReqInit /\ [][ReqNext]_vars

\* --------------------------------------------------- request validation
\* The three best-start services that return their result, called with
\* datetimes that parse and with strings that do not; the schema lets any
\* string through and rejects a call without dataStartAt or dataEndAt before
\* the handler runs.
EntryKinds == {"get_best_time_raw", "get_best_time_api", "get_forecast_raw"}
EntryRequests ==
    [dataStartAt : {IsoFormat(0), BadIso},
     dataEndAt : {IsoFormat(3 * SlotSeconds), BadIso},
     expectedRuntime : {30}, allowedHours : {<<>>}]
EntryBodies == {SeriesPayload, NullsPayload}

EntryInit == SysIdle /\ tz = 0

EntryNext ==
    \/ \E c \in Callers, kind \in EntryKinds, req \in EntryRequests :
          StartHandler(c, kind, req)
    \/ \E c \in Callers : SendRequest(c)
    \/ \E c \in Callers, o \in PrimaryOutcomes(EntryBodies) : ReceiveResponse(c, o)
    \/ \E c \in Callers : WakeUp(c)
    \/ \E c \in Callers : handle_get_best_time_raw(c)
    \/ \E c \in Callers : handle_get_forecast_raw(c)
    \/ \E c \in Callers, o \in SecondaryOutcomes : SecondaryResponse(c, o)
    \/ \E c \in Callers : FinishHandler(c)

SpecEntry == EntryInit /\ [][EntryNext]_vars

\* -------------------------------------------------------- delayed execution
\* delay_execution_by_co2_forecast_raw; the secondary provider may also name
\* a best time that is no datetime.
DelayOutcomes ==
    SecondaryOutcomes
    \cup {[kind |-> "http", status |-> 200,
           data |-> SecondaryBody("points", BadIso, 42)]}

DelayInit == SysIdle /\ tz = 0

DelayNext ==
    \/ \E c \in Callers, req \in EntryRequests : StartDelay(c, req)
    \/ \E c \in Callers : SendRequest(c)
    \/ \E c \in Callers, o \in PrimaryOutcomes(EntryBodies) : ReceiveResponse(c, o)
    \/ \E c \in Callers : WakeUp(c)
    \/ \E c \in Callers : handle_get_forecast_raw(c)
    \/ \E c \in Callers, o \in DelayOutcomes : SecondaryResponse(c, o)
    \/ \E c \in Callers : handle_delay_raw(c)
    \/ \E c \in Callers : FinishHandler(c)

SpecDelay == DelayInit /\ [][DelayNext]_vars

\* ------------------------------------------- handlers and current sensor
\* The raw-path handlers next to the periodic update of the current-value
\* sensor, for requests without an allowed-hours restriction in UTC.
CacheRequests == {req \in HandlerRequests : req.allowedHours = <<>>}

CacheInit == SysIdle /\ tz = 0

CacheNext ==
    \/ \E c \in Callers, kind \in HandlerKinds, req \in CacheRequests :
          StartHandler(c, kind, req)
    \/ \E c \in Callers : SendRequest(c)
    \/ \E c \in Callers, o \in PrimaryOutcomes(HandlerBodies) : ReceiveResponse(c, o)
    \/ \E c \in Callers : WakeUp(c)
    \/ \E c \in Callers : handle_get_best_time_raw(c)
    \/ \E c \in Callers : handle_get_forecast_raw(c)
    \/ \E c \in Callers, o \in SecondaryOutcomes : SecondaryResponse(c, o)
    \/ \E c \in Callers : FinishHandler(c)
    \/ async_update

SpecCache == CacheInit /\ [][CacheNext]_vars

\* ---------------------------------------------------- parser specification
\* Payloads of the parser runs: timestamps in any order and with repeats,
\* actual and forecast arrays of any length up to MaxArray, entries null, 0 or
\* a positive number.
ParseValues == {None, 0, 50}
ParsePayloads ==
    UNION {[kind : {"dict"},
            unix_seconds : [1..n -> Timestamps],
            co2eq : UNION {[1..la -> ParseValues] : la \in 0..MaxArray},
            co2eq_forecast : UNION {[1..lf -> ParseValues] : lf \in 0..MaxArray}]
           : n \in 0..MaxArray}

\* A payload has been fetched and is about to be parsed.
ReceivePayload ==
    /\ raw_json = NonePayload /\ calls = 0
    /\ \E json_data \in ParsePayloads : raw_json' = json_data
    /\ UNCHANGED <<points, tz, request, result, impl>>
    /\ UNCHANGED sysVars

\* One call of a parser on the payload; result keeps the series of the call
\* before it.
ParseWith(parser, series) ==
    /\ raw_json # NonePayload /\ calls < MaxCalls
    /\ points' = series
    /\ result' = [status |-> "parsed", previous |-> points]
    /\ impl' = parser
    /\ calls' = calls + 1
    /\ UNCHANGED <<tz, request, raw_json>>
    /\ UNCHANGED <<now, ticks, cache, call, lastFetch, forecast_sensor,
                   current_sensor>>

ParseInitPy == ParseWith("init", parse_energycharts_series(raw_json))
ParseEnginePy == ParseWith("engine", engine_parse_energycharts_series(raw_json))

ParseInit == SysIdle /\ tz = 0

ParseNext ==
    \/ ReceivePayload
    \/ ParseInitPy
    \/ ParseEnginePy

SpecParse == ParseInit /\ [][ParseNext]_vars

\* ------------------------------------------------- resolver specification
\* The payloads the resolver reads: ascending timestamps one slot apart, an
\* actual array that may be shorter than the timestamps, a forecast array.
SensorPayloads ==
    {EmptyDict} \cup
    UNION {[kind : {"dict"},
            unix_seconds : {[k \in 1..n |-> k * SlotSeconds]},
            co2eq : UNION {[1..la -> {None, 50, 100}] : la \in 0..n},
            co2eq_forecast : [1..n -> {None, 100}]] : n \in 0..MaxSamples}

\* provider.py with hass has fetched a 200 payload and stored it in the cache
\* under the time its call began; the fetch is the first thing that happens.
StoreFetched ==
    /\ cache = NoCache /\ ticks = 0
    /\ \E data \in SensorPayloads :
          /\ cache' = [data |-> data, timestamp |-> now]
          /\ lastFetch' = [data |-> data, at |-> now]
    /\ UNCHANGED <<points, tz, request, result, impl, raw_json>>
    /\ UNCHANGED <<now, ticks, call, calls, forecast_sensor, current_sensor>>

SensorTick ==
    /\ ticks < MaxSensorTicks
    /\ now' = now + SensorTickSeconds
    /\ ticks' = ticks + 1
    /\ UNCHANGED <<points, tz, request, result, impl, raw_json>>
    /\ UNCHANGED <<cache, call, calls, lastFetch, forecast_sensor, current_sensor>>

SensorInit == SysIdle /\ tz = 0

SensorNext ==
    \/ StoreFetched
    \/ SensorTick
    \/ async_update

SpecSensor == SensorInit /\ [][SensorNext]_vars

\* ------------------------------------------- optimizer claims (SpecOpt)
ReqRuntime == request.runtime_minutes * 60
Answered == impl # "none"
InWindow(ts) == request.window_start <= ts /\ ts < request.window_end

\* The indices of the series whose sample lies in the requested window.
WindowIdx == {i \in 1..Len(points) : InWindow(points[i].ts)}

\* The instant the returned best start names.
ResultStart ==
    ParseIso(IF impl = "init" THEN result.best_start_time_utc
             ELSE result.best_start_time)

\* C1: whenever best_start_from_points returns OK, window_start <= best_start
\* and best_start + duration <= window_end.
C1_BestStartFitsWindow ==
    (Answered /\ result.status = "OK") =>
        /\ request.window_start <= ResultStart
        /\ ResultStart + ReqRuntime <= request.window_end

\* C1's case: an OK answer although a later candidate of the window no longer
\* fits (the scan met its break).
C1_Witness ==
    /\ Answered /\ result.status = "OK"
    /\ \E i \in WindowIdx : points[i].ts + ReqRuntime > request.window_end

\* The candidate samples with t0 <= ts < t0 + duration, and their mean.
SamplesOfWindow(t0) ==
    SelectSeq(points, LAMBDA p : InWindow(p.ts) /\ t0 <= p.ts /\ p.ts < t0 + ReqRuntime)
WindowMean(t0) ==
    LET w == SamplesOfWindow(t0)
    IN  Avg([i \in 1..Len(w) |-> w[i].intensity])
AvgEq(a, b) == a[1] * b[2] = b[1] * a[2]

LocalOk(ts) ==
    \/ request.allowed_hours = NoHours
    \/ /\ request.allowed_hours[1] <= LocalHour(ts, tz)
       /\ LocalHour(ts, tz) < request.allowed_hours[2]

\* Qualifying starts as the spec words them: a candidate timestamp that fits
\* the window and lies inside allowed_hours in local time.
QualifyingStarts ==
    {points[i].ts : i \in
        {j \in WindowIdx :
            /\ points[j].ts + ReqRuntime <= request.window_end
            /\ LocalOk(points[j].ts)
            /\ SamplesOfWindow(points[j].ts) # <<>>}}

\* C2: an OK answer of __init__.py's optimizer reports the minimum, over the
\* qualifying starts t0, of the mean of the candidate samples with
\* t0 <= ts < t0 + duration, and the earliest start attaining it.
C2_MinMeanEarliestStart ==
    (impl = "init" /\ result.status = "OK") =>
        /\ ResultStart \in QualifyingStarts
        /\ AvgEq(result.expected_avg_intensity, WindowMean(ResultStart))
        /\ \A t \in QualifyingStarts :
              /\ ~AvgLess(WindowMean(t), WindowMean(ResultStart))
              /\ t < ResultStart => AvgLess(WindowMean(ResultStart), WindowMean(t))

GainAsked == request.min_gain # None /\ request.now_intensity # None

\* C3, for the calls without the optional min_gain mode: No Data exactly when
\* no sample has window_start <= ts < window_end, No Candidate exactly when
\* such samples exist and none yields a qualifying start, and OK otherwise.
C3_StatusAsStated ==
    (Answered /\ ~GainAsked) =>
        result.status = (IF WindowIdx = {} THEN "No Data"
                         ELSE IF QualifyingStarts = {} THEN "No Candidate"
                         ELSE "OK")

\* C10: with allowed_hours given, candidates all outside [s, e) in local time
\* give No Candidate, an OK best_start has its local hour inside [s, e), and a
\* qualifying candidate behind an excluded one is still found.
C10_AllowedHoursLocal ==
    (Answered /\ request.allowed_hours # NoHours) =>
        /\ (WindowIdx # {} /\ \A i \in WindowIdx : ~LocalOk(points[i].ts))
              => result.status = "No Candidate"
        /\ result.status = "OK" => LocalOk(ResultStart)
        /\ QualifyingStarts # {} => result.status \in {"OK", "Gain Too Low"}

\* The candidates that fit the window and have a sample in their interval.
FittingIdx ==
    {i \in WindowIdx :
        /\ points[i].ts + ReqRuntime <= request.window_end
        /\ SamplesOfWindow(points[i].ts) # <<>>}

UtcOk(ts) ==
    /\ request.allowed_hours[1] <= UtcHour(ts)
    /\ UtcHour(ts) < request.allowed_hours[2]

\* C12: the allowed-hours test goes by the local hour of the candidate, in
\* either optimizer: when every fitting candidate has its local hour inside
\* [s, e) and its UTC hour outside, a start is found, and a start that is
\* found has its local hour inside [s, e).
C12_LocalHourDecides ==
    (Answered /\ request.allowed_hours # NoHours) =>
        /\ (FittingIdx # {}
            /\ \A i \in FittingIdx :
                  LocalOk(points[i].ts) /\ ~UtcOk(points[i].ts))
              => result.status \in {"OK", "Gain Too Low"}
        /\ result.status \in {"OK", "Gain Too Low"} => LocalOk(ResultStart)

\* The series is in non-decreasing timestamp order.
SortedSeries ==
    \A i, j \in 1..Len(points) : i < j => points[i].ts <= points[j].ts

Fits(i) == points[i].ts + ReqRuntime <= request.window_end

\* The allowed-hours test as the answering implementation applies it.
ImplOk(ts) ==
    \/ request.allowed_hours = NoHours
    \/ IF impl = "init" THEN LocalOk(ts) ELSE UtcOk(ts)

\* What candidate i averages: the candidates from i on that lie before the
\* end of its interval.
IntervalOf(i) ==
    SelectSeq(SubSeq(points, i, Len(points)),
              LAMBDA p : InWindow(p.ts) /\ p.ts < points[i].ts + ReqRuntime)
IntervalMean(i) ==
    LET w == IntervalOf(i) IN Avg([k \in 1..Len(w) |-> w[k].intensity])

\* The candidates a scan over every candidate would accept, and the one it
\* would end on: the first of them whose mean none of them undercuts.
Accepted == {i \in WindowIdx : Fits(i) /\ ImplOk(points[i].ts) /\ IntervalOf(i) # <<>>}
ExhaustiveBest ==
    CHOOSE i \in Accepted :
        /\ \A k \in Accepted : ~AvgLess(IntervalMean(k), IntervalMean(i))
        /\ \A k \in Accepted :
              k < i => AvgLess(IntervalMean(i), IntervalMean(k))

\* C23: on a series in non-decreasing timestamp order, no candidate behind
\* one with t0 + duration > window_end fits the window, and the answer is
\* the one a scan over every candidate gives.
C23_EarlyExitLosesNothing ==
    (Answered /\ SortedSeries) =>
        /\ \A i, j \in WindowIdx : (i < j /\ ~Fits(i)) => ~Fits(j)
        /\ IF WindowIdx = {} THEN result.status = "No Data"
           ELSE IF Accepted = {} THEN result.status = "No Candidate"
           ELSE /\ result.status \in {"OK", "Gain Too Low"}
                /\ ResultStart = points[ExhaustiveBest].ts
                /\ AvgEq(result.expected_avg_intensity,
                         IntervalMean(ExhaustiveBest))

\* C23's case: the scan accepted a candidate, stopped at a later one that
\* no longer fits, and left a candidate behind it unexamined.
C23_Witness ==
    /\ Answered /\ SortedSeries /\ result.status = "OK"
    /\ \E i, j, k \in WindowIdx :
          i < j /\ j < k /\ i \in Accepted /\ ~Fits(j)

\* --------------------------------------------- provider claims (Spec)
Transient == Event("transient", 0)
Slept(n) == Event("sleep", n)
FetchReturned(cl) == cl.pc \in {"returned", "secondary", "done", "raised"}
AttemptsOf(cl) == Len(SelectSeq(cl.trace, LAMBDA e : e.ev # "sleep"))

\* C4: a fetch whose every attempt failed transiently made exactly 4 attempts
\* with sleeps of 5, 10 and 15 s between them and none after the last,
\* returned None and left the cache entry as it was when the call began.
C4_ExhaustedRetries ==
    \A c \in Callers :
        LET cl == call[c]
        IN  (/\ FetchReturned(cl) /\ cl.trace # <<>>
             /\ \A k \in 1..Len(cl.trace) : cl.trace[k].ev \in {"transient", "sleep"})
            => /\ cl.trace = <<Transient, Slept(5), Transient, Slept(10),
                               Transient, Slept(15), Transient>>
               /\ cl.requests = 4
               /\ cl.ret = NonePayload
               /\ cache = cl.cache0

\* C4's case: provider.py's fetch ran out of attempts over a cached entry.
C4_Witness ==
    \E c \in Callers :
        /\ call[c].pc = "returned" /\ call[c].requests = 4
        /\ call[c].kind = "provider_py" /\ call[c].hass
        /\ call[c].cache0 # NoCache
        /\ call[c].trace[Len(call[c].trace)] = Transient

\* C5: a 400..499 response is the call's last event: no attempt and no sleep
\* follows it, the call has returned None, and the cache entry is as it was
\* when the call began.
C5_ClientErrorAborts ==
    \A c \in Callers :
        LET cl == call[c]
        IN  \A k \in 1..Len(cl.trace) :
                cl.trace[k].ev = "client" =>
                    /\ k = Len(cl.trace)
                    /\ FetchReturned(cl)
                    /\ cl.requests = AttemptsOf(cl)
                    /\ cl.ret = NonePayload
                    /\ cache = cl.cache0

\* C5's case: the client error came on the third attempt, over a cached entry.
C5_Witness ==
    \E c \in Callers :
        /\ call[c].trace = <<Transient, Slept(5), Transient, Slept(10),
                             Event("client", 0)>>
        /\ call[c].cache0 # NoCache

\* C6, for the provider the request handlers construct (__init__.py): a call
\* begun less than 3600 s after the last successful fetch sends no request and
\* returns that fetch's payload, and a call begun later that succeeds on its
\* first attempt sends exactly one.
C6_FreshCacheIsServed ==
    \A c \in Callers :
        LET cl == call[c]
        IN  cl.kind = "init_py" =>
               /\ cl.fresh0 => /\ cl.requests = 0
                               /\ FetchReturned(cl) => cl.ret = cl.data0
               /\ (~cl.fresh0 /\ FetchReturned(cl) /\ cl.trace = <<Event("ok", 0)>>)
                     => cl.requests = 1

\* ----------------------------------------------- handler claims (SpecReq)
HandlerOver(cl) == cl.kind \in HandlerKinds /\ cl.pc \in {"done", "raised"}

\* The three cases of the fallback rule, on what the primary fetch returned.
NoPayload(cl) == cl.ret = NonePayload
Parsed(cl) == ~NoPayload(cl) /\ ~ParseRaises(cl.ret)
EmptySeries(cl) == Parsed(cl) /\ parse_energycharts_series(cl.ret) = <<>>
NotOK(cl) == Parsed(cl) /\ Optimized(cl).status # "OK"

\* C7: a raw-path request (get_best_time_raw or get_co2_intensity_forecast_raw)
\* whose primary fetch yields no payload, whose parsed series is empty or whose
\* optimizer status is not OK has called the secondary provider.
C7_FallbackInThreeCases ==
    \A c \in Callers :
        LET cl == call[c]
        IN  (HandlerOver(cl) /\ (NoPayload(cl) \/ EmptySeries(cl) \/ NotOK(cl)))
                => /\ cl.secondary_calls = 1
                   /\ cl.pc = "done" => cl.result.source = "raw_fallback_api"

\* C8: when the primary fetch returned no payload, the result of a raw-path
\* request carries the fallback tag, and its status (OK, No Data, Timeout or
\* Error), best_start and intensity are those of the secondary provider call.
C8_FallbackReflectsSecondary ==
    \A c \in Callers :
        LET cl == call[c]
        IN  (cl.kind \in HandlerKinds /\ cl.pc = "done" /\ NoPayload(cl))
                => /\ cl.secondary_calls = 1
                   /\ cl.result.source = "raw_fallback_api"
                   /\ cl.result.fallback = "api"
                   /\ cl.result.status = cl.sec.status
                   /\ cl.result.status \in {"OK", "No Data", "Timeout", "Error"}
                   /\ cl.result.best_start = cl.sec.best_time
                   /\ cl.result.avg_intensity = cl.sec.best_value
                   /\ cl.kind = "get_forecast_raw"
                        => /\ forecast_sensor.source = "raw_fallback_api"
                           /\ forecast_sensor.status = cl.sec.status

\* C8's case: the primary gave up after its retries and the secondary timed
\* out; the handler has reported.
C8_Witness ==
    \E c \in Callers :
        /\ call[c].kind \in HandlerKinds /\ call[c].pc = "done"
        /\ call[c].ret = NonePayload /\ call[c].requests = 4
        /\ call[c].sec.status = "Timeout"

\* Two hour integers in 0..23 with start_hour < end_hour.
ValidHours(hours) ==
    /\ Len(hours) = 2
    /\ hours[1] \in 0..23 /\ hours[2] \in 0..23
    /\ hours[1] < hours[2]

\* C9: with a valid allowed_hours [s, e), every result of status OK names a
\* best_start whose local hour h has s <= h < e, on the primary and on the
\* fallback path.
C9_AllowedHoursOnEveryPath ==
    \A c \in Callers :
        LET cl == call[c]
            hours == cl.req.allowedHours
        IN  (cl.kind \in HandlerKinds /\ cl.pc = "done" /\ ValidHours(hours)
             /\ cl.result.status = "OK")
                => /\ cl.result.best_start # None
                   /\ hours[1] <= LocalHour(ParseIso(cl.result.best_start), tz)
                   /\ LocalHour(ParseIso(cl.result.best_start), tz) < hours[2]

\* The optimizer's answer to the same request with allowed_hours absent.
Unrestricted(cl) ==
    best_start_from_points(parse_energycharts_series(cl.ret),
        ParseIso(cl.req.dataStartAt), ParseIso(cl.req.dataEndAt),
        cl.req.expectedRuntime, NoHours, tz)

\* C11: an allowedHours input that is not two hours in 0..23 with
\* start_hour < end_hour (such as "1-0" or "1-30") is no restriction: the
\* primary path's status, best_start and mean are those of the same request
\* without allowedHours.
C11_InvalidHoursUnrestricted ==
    \A c \in Callers :
        LET cl == call[c]
            free == Unrestricted(cl)
        IN  (cl.kind \in HandlerKinds /\ cl.raw_status # "none"
             /\ cl.req.allowedHours # <<>> /\ ~ValidHours(cl.req.allowedHours))
                => /\ cl.raw_status = free.status
                   /\ (cl.pc = "done" /\ cl.raw_status = "OK")
                        => /\ cl.result.best_start = free.best_start_time_utc
                           /\ cl.result.avg_intensity = free.expected_avg_intensity

\* C13: whatever the primary and the secondary answer, a raw-path request
\* ends with a result that carries a status; it never ends by raising.
C13_NeverRaises ==
    \A c \in Callers :
        /\ call[c].pc # "raised"
        /\ (call[c].kind \in HandlerKinds /\ call[c].pc = "done")
              => call[c].result.status # "none"

\* ------------------------------------------- resolver claims (SpecSensor)
\* The sensor was updated from the stored payload, at current_sensor.at.
Resolved == current_sensor.after_fetch /\ Truthy(cache.data)
SampleCount == Len(cache.data.unix_seconds)
SampleTs(k) == cache.data.unix_seconds[k]
HasActual(k) == k <= Len(cache.data.co2eq) /\ cache.data.co2eq[k] # None
HasForecast(k) ==
    k <= Len(cache.data.co2eq_forecast) /\ cache.data.co2eq_forecast[k] # None
HasValue(k) == HasActual(k) \/ HasForecast(k)
OwnValue(k) ==
    IF HasActual(k) THEN cache.data.co2eq[k] ELSE cache.data.co2eq_forecast[k]

\* C14: an update made when now is the timestamp of a sample with a non-null
\* value reports that sample's own value, with provenance actual or forecast
\* after its origin, and that sample's timestamp.
C14_ExactSampleValue ==
    \A k \in 1..SampleCount :
        (Resolved /\ current_sensor.at = SampleTs(k) /\ HasValue(k))
            => /\ current_sensor.state = 100 * OwnValue(k)
               /\ current_sensor.source =
                      (IF HasActual(k) THEN "actual" ELSE "forecast")
               /\ current_sensor.timestamp = IsoFormat(SampleTs(k))

\* now lies strictly between samples k and k + 1, both with a usable value.
Bracketed(k) ==
    /\ Resolved
    /\ SampleTs(k) < current_sensor.at /\ current_sensor.at < SampleTs(k + 1)
    /\ HasValue(k) /\ HasValue(k + 1)
\* v[k] + (v[k+1] - v[k]) * (now - ts[k]) / (ts[k+1] - ts[k]) as num / den.
LineNum(k) ==
    OwnValue(k) * (SampleTs(k + 1) - SampleTs(k))
        + (OwnValue(k + 1) - OwnValue(k)) * (current_sensor.at - SampleTs(k))
LineDen(k) == SampleTs(k + 1) - SampleTs(k)
Distance(a, b) == IF a >= b THEN a - b ELSE b - a

C16_ValueWheneverAny ==
    Resolved =>
        /\ current_sensor.status # "OK" => \A k \in 1..SampleCount : ~HasValue(k)
        /\ (\E k \in 1..SampleCount : HasValue(k))
              => current_sensor.status = "OK" /\ current_sensor.state # None

\* C16's case: only the last resort over the whole series found the value.
C16_Witness ==
    /\ Resolved /\ current_sensor.status = "OK"
    /\ current_sensor.step = "last_available"

\* The update was made at or after the timestamp of the last sample.
AfterLastSample ==
    /\ Resolved /\ SampleCount > 0
    /\ current_sensor.at # None
    /\ current_sensor.at >= SampleTs(SampleCount)

\* C24: an update made at or after the last sample's timestamp reports the
\* value of the highest-index sample that has a non-null value, its actual
\* value if non-null and otherwise its forecast value.
C24_LatestAvailableAfterEnd ==
    \A k \in 1..SampleCount :
        (AfterLastSample /\ HasValue(k)
         /\ \A m \in (k + 1)..SampleCount : ~HasValue(m))
            => /\ current_sensor.state = 100 * OwnValue(k)
               /\ current_sensor.source =
                      (IF HasActual(k) THEN "actual" ELSE "forecast")
               /\ current_sensor.index_used = k - 1

\* --------------------------------------------- parser claims (SpecParse)
ParsedOnce == calls >= 1
IndexCount == Len(raw_json.unix_seconds)

\* The value index i is to give: actual[i] if present and non-null, else
\* forecast[i] if present and non-null, else none.
ActualGiven(i) == i <= Len(raw_json.co2eq) /\ raw_json.co2eq[i] # None
ForecastGiven(i) ==
    i <= Len(raw_json.co2eq_forecast) /\ raw_json.co2eq_forecast[i] # None
ExpectedValue(i) ==
    IF ActualGiven(i) THEN raw_json.co2eq[i]
    ELSE IF ForecastGiven(i) THEN raw_json.co2eq_forecast[i]
    ELSE None

\* C17: the series holds, for every timestamp t and value v, as many samples
\* (t, v) as there are indices i with unix_seconds[i] = t whose value
\* (actual[i], else forecast[i]) is v, and none for an index without a value;
\* arrays of unequal length are parsed, and a second parse gives the same
\* series.
C17_SamplesPerIndex ==
    ParsedOnce =>
        /\ \A t \in Timestamps, v \in ParseValues \ {None} :
              Cardinality({k \in 1..Len(points) :
                              points[k].ts = t /\ points[k].intensity = v})
                = Cardinality({i \in 1..IndexCount :
                                  raw_json.unix_seconds[i] = t /\ ExpectedValue(i) = v})
        /\ Len(points) = Cardinality({i \in 1..IndexCount : ExpectedValue(i) # None})
        /\ calls >= 2 => result.previous = points

\* C17's case: arrays of unequal length, one index answered by the forecast,
\* one index dropped, parsed twice.
C17_Witness ==
    /\ calls >= 2
    /\ Len(raw_json.co2eq) # Len(raw_json.co2eq_forecast)
    /\ \E i \in 1..IndexCount : ~ActualGiven(i) /\ ForecastGiven(i)
    /\ \E i \in 1..IndexCount : ExpectedValue(i) = None

\* C18: the parsed series is in non-decreasing order of timestamp.
C18_SortedByTimestamp ==
    ParsedOnce =>
        \A k \in 1..(Len(points) - 1) : points[k].ts <= points[k + 1].ts

\* C18's case: the payload's timestamps are out of order and both samples
\* are kept.
C18_Witness ==
    /\ ParsedOnce /\ Len(points) = 2 /\ IndexCount = 2
    /\ raw_json.unix_seconds[1] > raw_json.unix_seconds[2]

\* C19: the parsed series holds one sample per timestamp, with the value of
\* the last index of that timestamp.
C19_OneSamplePerTimestamp ==
    ParsedOnce =>
        \A k \in 1..Len(points) :
            /\ \A m \in 1..Len(points) : points[m].ts = points[k].ts => m = k
            /\ \E i \in 1..IndexCount :
                  /\ raw_json.unix_seconds[i] = points[k].ts
                  /\ ExpectedValue(i) = points[k].intensity
                  /\ \A j \in (i + 1)..IndexCount :
                        raw_json.unix_seconds[j] = points[k].ts
                            => ExpectedValue(j) = None

\* ------------------------------------------- shared cache claim (SpecCache)
\* C20: a current-value update that follows a successful primary fetch of a
\* raw-path request resolves from the fetched payload: it does not report
\* that the cache holds no data.
C20_SensorReadsFetchedPayload ==
    current_sensor.after_fetch
        => current_sensor.status # "API not reachable or no data in cache"

\* ------------------------------------------- concurrency claims (SpecConc)
\* The entry the last successful fetch wrote: its payload under its own now.
EntryOfLastFetch ==
    IF lastFetch.at = None THEN NoCache
    ELSE [data |-> lastFetch.data, timestamp |-> lastFetch.at]

\* C21: whatever a fetch is doing when the sensor updates, the data and the
\* cache timestamp the update takes are those of one entry: the one the last
\* completed fetch wrote, or none when no fetch has completed.
C21_ReaderSeesOneEntry ==
    [][current_sensor' # current_sensor
          => current_sensor'.read = EntryOfLastFetch]_vars

\* C21's case: the sensor took an entry while a fetch that had begun before
\* the update was in progress, and that fetch has replaced the entry since.
C21_Witness ==
    /\ current_sensor.status = "OK"
    /\ current_sensor.read # NoCache
    /\ cache # current_sensor.read
    /\ cache.timestamp < current_sensor.at

\* C25: after two fetches that ran at the same time and both succeeded, as
\* after any successful fetch, the cache holds the payload and the timestamp
\* of the fetch that completed last.
C25_LastWriterWins ==
    lastFetch.at # None => cache = EntryOfLastFetch

\* C25's case: both fetches began on an empty cache, each got its 200 with a
\* payload of its own, and both have returned.
C25_Witness ==
    /\ \A c \in Fetchers :
          /\ call[c].pc = "returned" /\ call[c].requests = 1
          /\ call[c].cache0 = NoCache /\ Truthy(call[c].ret)
    /\ call["f1"].ret # call["f2"].ret
    /\ call["f1"].t0 # call["f2"].t0

\* C26: the timestamp of the cache entry never decreases.
C26_TimestampNeverDecreases ==
    [][cache.timestamp # None => cache'.timestamp >= cache.timestamp]_vars

\* C27: a step that updates the current-value sensor sends no request and
\* starts no call, leaves the cache entry as it is, and ends with a state
\* that is non-null exactly when the status is OK.
C27_UpdateOnlyReads ==
    [][current_sensor' # current_sensor
          => /\ cache' = cache
             /\ call' = call /\ calls' = calls
             /\ current_sensor'.state # None <=> current_sensor'.status = "OK"]_vars

\* C27's case: the sensor took its value from an entry as old as the cache's
\* maximum age, and the fetch that wrote the entry is the only call made.
C27_Witness ==
    /\ current_sensor.status = "OK" /\ current_sensor.state # None
    /\ current_sensor.read = cache
    /\ current_sensor.at - cache.timestamp >= CACHE_MAX_AGE_SECONDS
    /\ calls = 1 /\ \A c \in Fetchers : call[c].pc = "idle"

\* --------------------------------------------- validation claim (SpecEntry)
\* A call whose dataStartAt or dataEndAt is no datetime.
BadWindow(cl) == cl.req.dataStartAt = BadIso \/ cl.req.dataEndAt = BadIso

\* C22: a best-start call whose window start or end does not parse sends no
\* request to the primary provider, makes no call of the secondary provider,
\* and ends with the status MissingParam or InvalidDatetime, in each of
\* get_best_time_raw, get_best_time_api and get_forecast_raw.
C22_InvalidWindowRejectedFirst ==
    \A c \in Callers :
        (call[c].kind \in EntryKinds /\ BadWindow(call[c]))
            => /\ call[c].requests = 0
               /\ call[c].secondary_calls = 0
               /\ call[c].pc = "done"
               /\ call[c].result.status \in {"MissingParam", "InvalidDatetime"}

\* ------------------------------------------------ delay claim (SpecDelay)
\* C28: one delay_execution_by_co2_forecast_raw call hands at most one time
\* to the scheduler, and only the best start time its raw path or its
\* last-resort secondary call returned; a call that ends without a best time
\* has scheduled nothing.
C28_ScheduledAtMostOnce ==
    \A c \in Callers :
        call[c].outer # "none"
            => /\ Len(call[c].scheduled) <= 1
               /\ call[c].scheduled # <<>>
                     => /\ call[c].result.best_start \notin {None, BadIso}
                        /\ call[c].scheduled
                              = <<ParseIso(call[c].result.best_start)>>
               /\ (call[c].outer = "over" /\ call[c].result.best_start = None)
                     => call[c].scheduled = <<>>

\* C28's case: the raw path and its internal fallback gave no best time, the
\* last-resort call of the secondary provider gave one, and it was scheduled.
C28_Witness ==
    \E c \in Callers :
        /\ call[c].outer = "over" /\ call[c].secondary_calls = 2
        /\ Len(call[c].scheduled) = 1

====
